---- MODULE Spec2Model ----
(***************************************************************************)
(* A model of src/blackjack.go: one round of Blackjack between one player  *)
(* and the dealer (PlayBlackjack), the deck (NewDeck, Shuffle, DrawCard)   *)
(* and the hand evaluation (BlackjackHand.AddCard, BlackjackHand.Value).   *)
(*                                                                         *)
(* Spec     : a whole round, from the fresh deck to the printed outcome.   *)
(* SpecFair : Spec with the progress of the control flow and of the player. *)
(* SpecHand : one BlackjackHand receiving an arbitrary sequence of AddCard *)
(*            and Value calls (the hand is kept in the variable player).   *)
(* SpecDeck : one Deck receiving an arbitrary sequence of Shuffle and      *)
(*            DrawCard calls, every card drawn going to the hand player.   *)
(***************************************************************************)
EXTENDS Integers, Sequences, FiniteSets, TLC

VARIABLES deck, player, dealer, state, action, outcome

vars == <<deck, player, dealer, state, action, outcome>>

(***************************************************************************)
(* Suits and ranks, with the numbers the iota declarations give them.      *)
(***************************************************************************)
Spades == 0
Hearts == 1
Diamonds == 2
Clubs == 3

Ace == 1
Two == 2
Three == 3
Four == 4
Five == 5
Six == 6
Seven == 7
Eight == 8
Nine == 9
Ten == 10
Jack == 11
Queen == 12
King == 13

Suits == Spades..Clubs

Ranks == Ace..King

Card(s, r) == [Suit |-> s, Rank |-> r]

(***************************************************************************)
(* Bounds of the model.                                                    *)
(*   TopSlots : the number of positions at the top of the deck whose card  *)
(*              the modelled random sequences choose.                      *)
(*   FairSlots : the same number for SpecFair.                             *)
(*   MaxCards : the longest hand SpecHand builds.                          *)
(*   MaxDeckLen : the longest deck SpecDeck starts from.                   *)
(***************************************************************************)
TopSlots == 5

FairSlots == 4

MaxCards == 4

MaxDeckLen == 3

(***************************************************************************)
(* The deck.                                                               *)
(***************************************************************************)

\* A variant of NewDeck with the two loops exchanged: ranks outside, suits inside.
NewDeckRankMajor == [i \in 1..(Cardinality(Suits) * Cardinality(Ranks)) |->
                       Card(Spades + ((i - 1) % Cardinality(Suits)),
                            Ace + ((i - 1) \div Cardinality(Suits)))]

\* NewDeck: suits in the outer loop, ranks in the inner loop, each card appended.
NewDeck == [i \in 1..(Cardinality(Suits) * Cardinality(Ranks)) |->
              Card(Spades + ((i - 1) \div Cardinality(Ranks)),
                   Ace + ((i - 1) % Cardinality(Ranks)))]

\* A variant of Swap that assigns one way only: d.cards[a] = d.cards[b].
SwapOneWay(cards, a, b) == [cards EXCEPT ![a + 1] = cards[b + 1]]

\* d.cards[a], d.cards[b] = d.cards[b], d.cards[a], on 0-based indices.
Swap(cards, a, b) == [cards EXCEPT ![a + 1] = cards[b + 1], ![b + 1] = cards[a + 1]]

\* The loop of Shuffle: i runs from n-1 down to 1 and rng[i] is the value
\* rng.Intn(i + 1) returned in iteration i, a number in 0..i.
RECURSIVE ShuffleLoop(_, _, _)
ShuffleLoop(cards, rng, i) ==
    IF i > 0 THEN ShuffleLoop(Swap(cards, i, rng[i]), rng, i - 1)
             ELSE cards

Shuffle(cards, rng) == ShuffleLoop(cards, rng, Len(cards) - 1)

\* DrawCard on an empty deck panics; otherwise it returns the first card and
\* keeps the rest.
DeckIsEmpty(cards) == Len(cards) = 0

DrawnCard(cards) == cards[1]

\* A variant of AfterDraw that keeps the wrong end: d.cards[:len(d.cards)-1].
AfterDrawKeepsFront(cards) == SubSeq(cards, 1, Len(cards) - 1)

AfterDraw(cards) == Tail(cards)

(***************************************************************************)
(* The hand.                                                               *)
(***************************************************************************)
EmptyHand == [cards |-> <<>>, soft |-> FALSE]

\* A variant of CardValue in which the face cards add their rank number.
CardValueFaceAsRank(card, soft, value) ==
    IF card.Rank = Ace
      THEN (IF soft /\ value + 11 <= 21 THEN 11 ELSE 1)
      ELSE card.Rank

\* What one card adds to the running total in the loop of Value.
CardValue(card, soft, value) ==
    IF card.Rank = Ace
      THEN (IF soft /\ value + 11 <= 21 THEN 11 ELSE 1)
      ELSE IF card.Rank \in {Jack, Queen, King}
             THEN 10
             ELSE card.Rank

RECURSIVE ValueLoop(_, _, _, _)
ValueLoop(cards, soft, i, value) ==
    IF i > Len(cards)
      THEN value
      ELSE ValueLoop(cards, soft, i + 1, value + CardValue(cards[i], soft, value))

Value(h) == ValueLoop(h.cards, h.soft, 1, 0)

\* A variant of HandAfterValue in which Value drops the soft flag of a hand
\* whose total is over 21.
HandAfterValueDropsSoft(h) == IF Value(h) > 21 THEN [h EXCEPT !.soft = FALSE] ELSE h

\* The hand as a call of Value leaves it: Value assigns neither h.cards nor
\* h.soft (its only assignments are to the local value).
HandAfterValue(h) == h

\* A variant of AddCard that assigns the result of the test to soft.
AddCardAssignsSoft(h, card) ==
    LET appended == [h EXCEPT !.cards = Append(@, card)]
    IN  IF card.Rank = Ace
          THEN [HandAfterValue(appended) EXCEPT !.soft = (Value(appended) <= 10)]
          ELSE appended

\* A variant of AddCard that sets soft whenever the hand is not over 21.
AddCardSoftUpTo21(h, card) ==
    LET appended == [h EXCEPT !.cards = Append(@, card)]
    IN  IF card.Rank = Ace
          THEN (IF Value(appended) <= 21
                  THEN [HandAfterValue(appended) EXCEPT !.soft = TRUE]
                  ELSE HandAfterValue(appended))
          ELSE appended

\* AddCard appends first and evaluates afterwards: h.Value() sees the new
\* card, and is called for an Ace only.
AddCard(h, card) ==
    LET appended == [h EXCEPT !.cards = Append(@, card)]
    IN  IF card.Rank = Ace
          THEN (IF Value(appended) <= 10
                  THEN [HandAfterValue(appended) EXCEPT !.soft = TRUE]
                  ELSE HandAfterValue(appended))
          ELSE appended

(***************************************************************************)
(* The random sequences of the model.  A choice gives every one of the     *)
(* top positions either 0 (its card is not swapped) or a rank of           *)
(* TopRanks; the k-th position asking for a rank gets it in the k-th suit  *)
(* after Spades (so a rank is asked for at most three times).  In the      *)
(* iteration i of that card's index Intn returns the position, and in      *)
(* every other iteration it returns i itself.                              *)
(***************************************************************************)
TopRanks == {Ace, Three, Four, Five, Nine, Ten}

Uses(top, t) == Cardinality({u \in 1..t : top[u] = top[t]})

TopChoicesOf(n) == {top \in [1..n -> TopRanks \cup {0}] :
                      \A t \in 1..n : top[t] # 0 => Uses(top, t) <= Clubs}

TopChoices == TopChoicesOf(TopSlots)

SourceIndex(top, t) == Uses(top, t) * Cardinality(Ranks) + (top[t] - Ace)

RngOf(top) ==
    LET src == [t \in DOMAIN top |-> IF top[t] = 0 THEN 0 ELSE SourceIndex(top, t)]
    IN  [i \in 1..(Len(NewDeck) - 1) |->
           IF \E t \in DOMAIN top : src[t] = i
             THEN (CHOOSE t \in DOMAIN top : src[t] = i) - 1
             ELSE i]

\* What the player may type at the prompt; "" is what action holds when
\* Scanf reads nothing.
Inputs == {"h", "s", "x", ""}

(***************************************************************************)
(* The round: PlayBlackjack.                                               *)
(***************************************************************************)

\* Variants of Winner with a slip in the chain.
WinnerPlayerFirst(p, d) ==
    IF d > 21 \/ (p <= 21 /\ p > d)
      THEN "Player wins!"
      ELSE IF p > 21 \/ (d <= 21 /\ d > p)
             THEN "Dealer wins!"
             ELSE "Push!"

WinnerNoBustCheck(p, d) ==
    IF p > 21 \/ d > p
      THEN "Dealer wins!"
      ELSE IF d > 21 \/ (p <= 21 /\ p > d)
             THEN "Player wins!"
             ELSE "Push!"

WinnerTieToDealer(p, d) ==
    IF p > 21 \/ (d <= 21 /\ d >= p)
      THEN "Dealer wins!"
      ELSE IF d > 21 \/ (p <= 21 /\ p > d)
             THEN "Player wins!"
             ELSE "Push!"

\* The if / else if / else chain that prints the outcome.
Winner(p, d) ==
    IF p > 21 \/ (d <= 21 /\ d > p)
      THEN "Dealer wins!"
      ELSE IF d > 21 \/ (p <= 21 /\ p > d)
             THEN "Player wins!"
             ELSE "Push!"

\* A variant of the dealer's loop condition that stands on 16.
DealerMustDrawBelow16(h) == Value(h) < 16

\* The condition of the dealer loop.
DealerMustDraw(h) == Value(h) < 17

Init ==
    /\ deck = NewDeck
    /\ player = EmptyHand
    /\ dealer = EmptyHand
    /\ state = "Created"
    /\ action = ""
    /\ outcome = ""

\* deck.Shuffle()
ShuffleDeck ==
    /\ state = "Created"
    /\ \E top \in TopChoices : deck' = Shuffle(deck, RngOf(top))
    /\ state' = "Dealing"
    /\ UNCHANGED <<player, dealer, action, outcome>>

\* h.AddCard for each card of a sequence in turn.
RECURSIVE AddCards(_, _)
AddCards(h, cards) ==
    IF cards = <<>> THEN h ELSE AddCards(AddCard(h, cards[1]), Tail(cards))

\* A variant of Deal that deals in turns: player, dealer, player, dealer.
DealInTurns ==
    /\ state = "Dealing"
    /\ Len(deck) >= 4
    /\ player' = AddCard(AddCard(player, deck[1]), deck[3])
    /\ dealer' = AddCard(AddCard(dealer, deck[2]), deck[4])
    /\ deck' = AfterDraw(AfterDraw(AfterDraw(AfterDraw(deck))))
    /\ state' = "PlayerTurn"
    /\ UNCHANGED <<action, outcome>>

\* The four initial draws: player, player, dealer, dealer.  On a deck of
\* fewer than four cards the draws that succeed are made and the next panics.
Deal ==
    /\ state = "Dealing"
    /\ IF Len(deck) < 4
         THEN /\ state' = "Panic"
              /\ deck' = <<>>
              /\ player' = AddCards(player, SubSeq(deck, 1, IF Len(deck) < 2 THEN Len(deck) ELSE 2))
              /\ dealer' = AddCards(dealer, SubSeq(deck, 3, Len(deck)))
         ELSE /\ player' = AddCard(AddCard(player, deck[1]), deck[2])
              /\ dealer' = AddCard(AddCard(dealer, deck[3]), deck[4])
              /\ deck' = AfterDraw(AfterDraw(AfterDraw(AfterDraw(deck))))
              /\ state' = "PlayerTurn"
    /\ UNCHANGED <<action, outcome>>

\* A variant of Hit that ends the player's turn at 21 already.
HitEndsAt21 ==
    /\ state = "PlayerTurn"
    /\ action' = "h"
    /\ IF DeckIsEmpty(deck)
         THEN /\ state' = "Panic"
              /\ UNCHANGED <<deck, player>>
         ELSE /\ player' = AddCard(player, DrawnCard(deck))
              /\ deck' = AfterDraw(deck)
              /\ state' = IF Value(player') >= 21 THEN "DealerTurn" ELSE "PlayerTurn"
    /\ UNCHANGED <<dealer, outcome>>

\* A variant of Hit without the bust check: the loop goes on after any hit.
HitNoBustCheck ==
    /\ state = "PlayerTurn"
    /\ action' = "h"
    /\ IF DeckIsEmpty(deck)
         THEN /\ state' = "Panic"
              /\ UNCHANGED <<deck, player>>
         ELSE /\ player' = AddCard(player, DrawnCard(deck))
              /\ deck' = AfterDraw(deck)
              /\ state' = "PlayerTurn"
    /\ UNCHANGED <<dealer, outcome>>

\* One iteration of the player loop with the input "h".
Hit ==
    /\ state = "PlayerTurn"
    /\ action' = "h"
    /\ IF DeckIsEmpty(deck)
         THEN /\ state' = "Panic"
              /\ UNCHANGED <<deck, player>>
         ELSE /\ player' = AddCard(player, DrawnCard(deck))
              /\ deck' = AfterDraw(deck)
              /\ state' = IF Value(player') > 21 THEN "DealerTurn" ELSE "PlayerTurn"
    /\ UNCHANGED <<dealer, outcome>>

\* A variant of Stand without the break: the loop prompts again.
StandPromptsAgain ==
    /\ state = "PlayerTurn"
    /\ action' = "s"
    /\ state' = "PlayerTurn"
    /\ UNCHANGED <<deck, player, dealer, outcome>>

\* One iteration of the player loop with the input "s".
Stand ==
    /\ state = "PlayerTurn"
    /\ action' = "s"
    /\ state' = "DealerTurn"
    /\ UNCHANGED <<deck, player, dealer, outcome>>

\* A variant of InvalidAction that treats the unknown input as a hit.
InvalidActionDraws ==
    /\ state = "PlayerTurn"
    /\ \E a \in Inputs \ {"h", "s"} : action' = a
    /\ ~DeckIsEmpty(deck)
    /\ player' = AddCard(player, DrawnCard(deck))
    /\ deck' = AfterDraw(deck)
    /\ UNCHANGED <<dealer, state, outcome>>

\* One iteration of the player loop with any other input.
InvalidAction ==
    /\ state = "PlayerTurn"
    /\ \E a \in Inputs \ {"h", "s"} : action' = a
    /\ UNCHANGED <<deck, player, dealer, state, outcome>>

\* One iteration of the dealer loop; a draw that busts the dealer breaks out
\* of the loop to the outcome.
DealerHit ==
    /\ state = "DealerTurn"
    /\ DealerMustDraw(dealer)
    /\ IF DeckIsEmpty(deck)
         THEN /\ state' = "Panic"
              /\ UNCHANGED <<deck, dealer, outcome>>
         ELSE /\ dealer' = AddCard(dealer, DrawnCard(deck))
              /\ deck' = AfterDraw(deck)
              /\ IF Value(dealer') > 21
                   THEN /\ state' = "Resolved"
                        /\ outcome' = Winner(Value(player), Value(dealer'))
                   ELSE /\ state' = "DealerTurn"
                        /\ outcome' = outcome
    /\ UNCHANGED <<player, action>>

\* A variant of DealerStand in which the dealer stops once the player is bust.
DealerStandIfPlayerBust ==
    /\ state = "DealerTurn"
    /\ (~DealerMustDraw(dealer) \/ Value(player) > 21)
    /\ state' = "Resolved"
    /\ outcome' = Winner(Value(player), Value(dealer))
    /\ UNCHANGED <<deck, player, dealer, action>>

\* The dealer loop ends on its condition, and the outcome is printed.
DealerStand ==
    /\ state = "DealerTurn"
    /\ ~DealerMustDraw(dealer)
    /\ state' = "Resolved"
    /\ outcome' = Winner(Value(player), Value(dealer))
    /\ UNCHANGED <<deck, player, dealer, action>>

Next ==
    \/ ShuffleDeck
    \/ Deal
    \/ Hit
    \/ Stand
    \/ InvalidAction
    \/ DealerHit
    \/ DealerStand

Spec == Init /\ [][Next]_vars

\* The round from the shuffled deck on, with its progress: the single control flow runs on whenever it
\* does not wait for input, and the player, when prompted, eventually types
\* "h" or "s" (invalid input is not repeated for ever).
InitFair ==
    /\ deck \in {Shuffle(NewDeck, RngOf(top)) : top \in TopChoicesOf(FairSlots)}
    /\ player = EmptyHand
    /\ dealer = EmptyHand
    /\ state = "Dealing"
    /\ action = ""
    /\ outcome = ""

NextFair ==
    \/ Deal
    \/ Hit
    \/ Stand
    \/ InvalidAction
    \/ DealerHit
    \/ DealerStand

SpecFair ==
    /\ InitFair
    /\ [][NextFair]_vars
    /\ WF_vars(Deal \/ DealerHit \/ DealerStand)
    /\ WF_vars(Hit \/ Stand)

(***************************************************************************)
(* One hand under arbitrary AddCard calls.                                 *)
(***************************************************************************)
HandCards == {Card(Spades, r) : r \in Ranks}

InitHand ==
    /\ deck = <<>>
    /\ player = EmptyHand
    /\ dealer = EmptyHand
    /\ state = "Hand"
    /\ action = ""
    /\ outcome = ""

HandAddCard ==
    /\ state = "Hand"
    /\ Len(player.cards) < MaxCards
    /\ \E card \in HandCards : player' = AddCard(player, card)
    /\ UNCHANGED <<deck, dealer, state, action, outcome>>

\* h.Value() called on the hand.
HandValue ==
    /\ state = "Hand"
    /\ player' = HandAfterValue(player)
    /\ UNCHANGED <<deck, dealer, state, action, outcome>>

NextHand ==
    \/ HandAddCard
    \/ HandValue

SpecHand == InitHand /\ [][NextHand]_vars

(***************************************************************************)
(* One deck under arbitrary Shuffle and DrawCard calls.  The deck starts   *)
(* with up to MaxDeckLen of the cards DeckCards, in the order NewDeck      *)
(* gives them; Shuffle may receive every sequence of values of Intn.       *)
(***************************************************************************)
DeckCards == {Card(Spades, Ace), Card(Spades, King), Card(Hearts, Ace),
              Card(Hearts, Five), Card(Clubs, Nine)}

\* The position of a card in NewDeck.
NewDeckIndex(card) == (card.Suit - Spades) * Cardinality(Ranks) + (card.Rank - Ace) + 1

InNewDeckOrder(cards) ==
    \A i \in 1..(Len(cards) - 1) : NewDeckIndex(cards[i]) < NewDeckIndex(cards[i + 1])

StartDecks ==
    UNION {{cards \in [1..n -> DeckCards] : InNewDeckOrder(cards)} : n \in 0..MaxDeckLen}

\* Every sequence of values rng.Intn(i + 1) can return for i = n-1 .. 1.
AllRng(n) == {rng \in [1..(n - 1) -> 0..(n - 1)] : \A i \in 1..(n - 1) : rng[i] <= i}

InitDeck ==
    /\ deck \in StartDecks
    /\ player = EmptyHand
    /\ dealer = EmptyHand
    /\ state = "Deck"
    /\ action = ""
    /\ outcome = ""

\* deck.Shuffle()
DeckShuffle ==
    /\ state = "Deck"
    /\ \E rng \in AllRng(Len(deck)) : deck' = Shuffle(deck, rng)
    /\ UNCHANGED <<player, dealer, state, action, outcome>>

\* A variant of DeckDraw in which DrawCard on an empty deck returns the zero
\* Card instead of panicking.
DeckDrawZeroCard ==
    /\ state = "Deck"
    /\ IF DeckIsEmpty(deck)
         THEN /\ player' = AddCard(player, Card(0, 0))
              /\ UNCHANGED <<deck, state>>
         ELSE /\ player' = AddCard(player, DrawnCard(deck))
              /\ deck' = AfterDraw(deck)
              /\ state' = state
    /\ Len(player.cards) <= MaxDeckLen
    /\ UNCHANGED <<dealer, action, outcome>>

\* player.AddCard(deck.DrawCard()); the panic of DrawCard ends the program.
DeckDraw ==
    /\ state = "Deck"
    /\ IF DeckIsEmpty(deck)
         THEN /\ state' = "Panic"
              /\ UNCHANGED <<deck, player>>
         ELSE /\ player' = AddCard(player, DrawnCard(deck))
              /\ deck' = AfterDraw(deck)
              /\ state' = state
    /\ UNCHANGED <<dealer, action, outcome>>

NextDeck ==
    \/ DeckShuffle
    \/ DeckDraw

SpecDeck == InitDeck /\ [][NextDeck]_vars

(***************************************************************************)
(* Properties of the outcome.                                              *)
(***************************************************************************)

\* The outcome as a function of the final values p and d.
OutcomeOf(p, d) ==
    CASE p > 21 \/ (d <= 21 /\ d > p) -> "Dealer wins!"
      [] ~(p > 21 \/ (d <= 21 /\ d > p)) /\ (d > 21 \/ (p <= 21 /\ p > d)) -> "Player wins!"
      [] OTHER -> "Push!"

\* C1: in a Resolved round the outcome is OutcomeOf(player.Value(),
\* dealer.Value()) whatever path led there, no outcome exists before the round
\* is Resolved, and when both hands are over 21 the outcome is "Dealer wins!".
C1_OutcomeIsFunctionOfValues ==
    /\ state = "Resolved" => outcome = OutcomeOf(Value(player), Value(dealer))
    /\ state # "Resolved" => outcome = ""
    /\ (state = "Resolved" /\ Value(player) > 21 /\ Value(dealer) > 21)
         => outcome = "Dealer wins!"

C1_Witness ==
    /\ state = "Resolved"
    /\ Value(player) = 23
    /\ Value(dealer) = 24
    /\ outcome = "Dealer wins!"

\* C2 as stated: in a Resolved round a player over 21 gives "Dealer wins!" and
\* a dealer over 21 gives "Player wins!", whatever the other hand is.
C2_BustAlwaysLoses ==
    state = "Resolved" =>
        /\ Value(player) > 21 => outcome = "Dealer wins!"
        /\ Value(dealer) > 21 => outcome = "Player wins!"

\* C2 amended: in a Resolved round a player over 21 gives "Dealer wins!"
\* whatever the dealer has, and a dealer over 21 gives "Player wins!" whenever
\* the player is not over 21 too.
C2_BustLosesPlayerFirst ==
    state = "Resolved" =>
        /\ Value(player) > 21 => outcome = "Dealer wins!"
        /\ (Value(dealer) > 21 /\ Value(player) <= 21) => outcome = "Player wins!"

C2_Witness ==
    /\ state = "Resolved"
    /\ Value(dealer) > 21
    /\ Value(player) <= 21
    /\ outcome = "Player wins!"

\* C3: in a Resolved round the outcome is "Push!" exactly when the two values
\* are equal and neither is over 21.
C3_PushIffTie ==
    state = "Resolved" =>
        (outcome = "Push!" <=>
            (Value(player) = Value(dealer) /\ Value(player) <= 21 /\ Value(dealer) <= 21))

C3_Witness ==
    /\ state = "Resolved"
    /\ outcome = "Push!"
    /\ Value(player) = Value(dealer)

(***************************************************************************)
(* Properties of the hand evaluation (checked under SpecHand).             *)
(***************************************************************************)
RanksOf(cards) == [i \in 1..Len(cards) |-> cards[i].Rank]

\* The fold over the cards from the left: the total of the cards before the
\* last one, plus what the last one adds to that total.
RECURSIVE FoldValue(_, _)
FoldValue(cards, soft) ==
    IF cards = <<>>
      THEN 0
      ELSE LET total == FoldValue(SubSeq(cards, 1, Len(cards) - 1), soft)
               rank == cards[Len(cards)].Rank
           IN  total + (CASE rank = Ace -> (IF soft /\ total + 11 <= 21 THEN 11 ELSE 1)
                          [] rank \in {Jack, Queen, King} -> 10
                          [] OTHER -> rank)

\* The total with every Ace counted as 1.
RECURSIVE HardTotal(_)
HardTotal(cards) ==
    IF cards = <<>>
      THEN 0
      ELSE HardTotal(Tail(cards)) +
             (IF cards[1].Rank \in {Ten, Jack, Queen, King} THEN 10 ELSE cards[1].Rank)

\* C4: the value of every hand built by AddCard calls is the left-to-right
\* fold of its cards (face cards 10, Two..Ten their number, an Ace 11 when
\* soft and the running total + 11 <= 21, else 1); [Ace, Ace, Nine] is 21 and
\* [Ten, Nine, Five] is 24.
C4_ValueIsFold ==
    /\ Value(player) = FoldValue(player.cards, player.soft)
    /\ RanksOf(player.cards) = <<Ace, Ace, Nine>> => Value(player) = 21
    /\ RanksOf(player.cards) = <<Ten, Nine, Five>> => Value(player) = 24

C4_Witness ==
    /\ RanksOf(player.cards) = <<Ace, Ace, Nine>>
    /\ player.soft
    /\ Value(player) = 21

\* C5 as stated: a hand whose total with every Ace counted as 1 is at most 21
\* has a value of at most 21.
C5_AceAs11NeverBusts ==
    HardTotal(player.cards) <= 21 => Value(player) <= 21

\* C6 as stated: when AddCard adds an Ace, soft becomes true if the value of
\* the cards held before it is <= 10, and soft keeps its value if that value
\* is > 10.
C6_SoftSetFromPriorValue ==
    [][(/\ Len(player'.cards) = Len(player.cards) + 1
        /\ player'.cards[Len(player'.cards)].Rank = Ace)
       => /\ Value(player) <= 10 => player'.soft
          /\ Value(player) > 10 => player'.soft = player.soft]_vars

(***************************************************************************)
(* Properties of the turns.                                                *)
(***************************************************************************)

\* The hand that AddCard builds from a sequence of cards.
RECURSIVE HandOf(_)
HandOf(cards) ==
    IF cards = <<>>
      THEN EmptyHand
      ELSE AddCard(HandOf(SubSeq(cards, 1, Len(cards) - 1)), cards[Len(cards)])

\* The dealer's two cards of the deal, and the cards it drew afterwards.
DealtToDealer == SubSeq(dealer.cards, 1, 2)

DrawnByDealer == SubSeq(dealer.cards, 3, Len(dealer.cards))

\* The dealer's play as a function of the dealer's hand and the deck alone:
\* draw the first card of the deck while the value is below 17.
RECURSIVE DealerPlay(_, _)
DealerPlay(h, d) ==
    IF Value(h) < 17 /\ d # <<>>
      THEN DealerPlay(AddCard(h, d[1]), Tail(d))
      ELSE [hand |-> h, deck |-> d]

\* C7: a dealer in DealerTurn with a value below 17 draws exactly the first
\* card of the deck, a dealer with 17 or more draws nothing and the round is
\* Resolved; so in every Resolved round the dealer's value is at least 17.
C7_DealerDrawsBelow17 ==
    /\ [](state = "Resolved" => Value(dealer) >= 17)
    /\ [][state = "DealerTurn" =>
            /\ Value(dealer) < 17 =>
                 /\ dealer'.cards = Append(dealer.cards, deck[1])
                 /\ deck' = Tail(deck)
            /\ Value(dealer) >= 17 =>
                 /\ dealer' = dealer
                 /\ deck' = deck
                 /\ state' = "Resolved"]_vars

C7_Witness ==
    /\ state = "Resolved"
    /\ Len(dealer.cards) = 3
    /\ Value(HandOf(DealtToDealer)) = 16

\* C8: the dealer's play is a function of the dealer's hand and the deck at
\* the start of DealerTurn, whatever the player holds: throughout DealerTurn
\* the play still leads to the result it led to at the start, and in a
\* Resolved round the dealer's hand and the deck are that result.
C8_DealerIgnoresPlayer ==
    /\ state \in {"DealerTurn", "Resolved"} =>
         DealerPlay(dealer, deck) = DealerPlay(HandOf(DealtToDealer), DrawnByDealer \o deck)
    /\ state = "Resolved" =>
         [hand |-> dealer, deck |-> deck] = DealerPlay(dealer, deck)

C8_Witness ==
    /\ state = "Resolved"
    /\ Value(player) > 21
    /\ Len(dealer.cards) >= 4

\* C9: an input other than "h" and "s" in PlayerTurn changes neither hand, nor
\* the deck, nor the turn state, and prints no outcome.
C9_InvalidInputChangesNothing ==
    [][(state = "PlayerTurn" /\ action' \notin {"h", "s"})
       => UNCHANGED <<player, dealer, deck, state, outcome>>]_vars

C9_Witness ==
    /\ state = "PlayerTurn"
    /\ action = "x"
    /\ Len(player.cards) = 3

\* C10: a step of PlayerTurn leads to DealerTurn exactly when the input is "s"
\* or the input is "h" and the card drawn makes the player's value exceed 21;
\* a hit appends the first card of the deck to the player's hand, a hit that
\* leaves the value at 21 or less stays in PlayerTurn, a stand draws nothing.
C10_PlayerTurnEndsOnStandOrBust ==
    [][state = "PlayerTurn" =>
         /\ state' \in {"PlayerTurn", "DealerTurn"}
         /\ state' = "DealerTurn" <=>
              (action' = "s" \/ (action' = "h" /\ Value(player') > 21))
         /\ action' = "h" =>
              /\ player'.cards = Append(player.cards, deck[1])
              /\ deck' = Tail(deck)
         /\ action' = "s" => (player' = player /\ deck' = deck)
         /\ dealer' = dealer]_vars

C10_Witness ==
    /\ state = "PlayerTurn"
    /\ action = "h"
    /\ Len(player.cards) = 4
    /\ Value(player) <= 21

(***************************************************************************)
(* Properties of the deck.                                                 *)
(***************************************************************************)

\* C11: the deck NewDeck returns has 52 cards, the card of suit s and rank r
\* at position 13 * s + r (suits in the order Spades..Clubs, ranks Ace..King
\* within a suit), and no card twice.
C11_NewDeckIsFullAndOrdered ==
    state = "Created" =>
        /\ Len(deck) = 52
        /\ \A s \in 0..3, r \in 1..13 : deck[13 * s + r] = [Suit |-> s, Rank |-> r]
        /\ \A i, j \in 1..Len(deck) : i # j => deck[i] # deck[j]
        /\ \A i \in 1..(Len(deck) - 1) :
             \/ deck[i].Suit < deck[i + 1].Suit
             \/ deck[i].Suit = deck[i + 1].Suit /\ deck[i].Rank < deck[i + 1].Rank

C11_Witness ==
    /\ state = "Created"
    /\ deck[1] = [Suit |-> 0, Rank |-> 1]
    /\ deck[14] = [Suit |-> 1, Rank |-> 1]
    /\ deck[52] = [Suit |-> 3, Rank |-> 13]

\* The number of times a card occurs in a sequence of cards.
Count(card, cards) == Cardinality({i \in 1..Len(cards) : cards[i] = card})

CardsIn(cards) == {cards[i] : i \in 1..Len(cards)}

\* C12: a Shuffle (a step of the deck that draws no card) leaves the size of
\* the deck and the number of occurrences of every card unchanged, whatever
\* values Intn returns.
C12_ShuffleIsPermutation ==
    [][(state = "Deck" /\ state' = "Deck" /\ player' = player)
       => /\ Len(deck') = Len(deck)
          /\ \A card \in CardsIn(deck) \cup CardsIn(deck') :
               Count(card, deck') = Count(card, deck)]_vars

C12_Witness ==
    /\ state = "Deck"
    /\ player = EmptyHand
    /\ Len(deck) = 3
    /\ NewDeckIndex(deck[1]) > NewDeckIndex(deck[2])
    /\ NewDeckIndex(deck[2]) > NewDeckIndex(deck[3])

\* C13: a DrawCard on a deck that is not empty hands out the first card of the
\* deck, makes the deck one card shorter, keeps the other cards in their
\* order, and the card handed out is no longer in the deck.
C13_DrawTakesFirstCard ==
    [][(state = "Deck" /\ ~(Len(deck) = 0) /\ Len(player'.cards) = Len(player.cards) + 1)
       => /\ player'.cards[Len(player'.cards)] = deck[1]
          /\ Len(deck') = Len(deck) - 1
          /\ \A i \in 1..Len(deck') : deck'[i] = deck[i + 1]
          /\ deck[1] \notin CardsIn(deck')]_vars

C13_Witness ==
    /\ state = "Deck"
    /\ Len(player.cards) = 2
    /\ Len(deck) = 1
    /\ NewDeckIndex(player.cards[1]) > NewDeckIndex(deck[1])

\* C14: a DrawCard on an empty deck panics: the hand receives no card, the
\* deck stays empty, no outcome is printed, and nothing happens after the
\* panic.
C14_EmptyDeckPanics ==
    /\ [][(state = "Deck" /\ Len(deck) = 0)
          => /\ state' = "Panic"
             /\ player' = player
             /\ deck' = deck
             /\ outcome' = ""]_vars
    /\ [][state # "Panic"]_vars
    /\ [](state = "Panic" => (Len(deck) = 0 /\ outcome = ""))

C14_Witness ==
    /\ state = "Panic"
    /\ Len(deck) = 0
    /\ Len(player.cards) = 3

\* C15: in a round played from the shuffled 52-card deck no DrawCard meets an
\* empty deck: the round never panics, four cards are there to deal, and the
\* deck is not empty whenever the player may hit or the dealer must draw.  A
\* hand that may still draw holds at most as many cards as its value (at most
\* 21 for the player and 16 for the dealer), so fewer than 52 are ever drawn.
C15_NoEmptyDeckInRound ==
    /\ state # "Panic"
    /\ state = "Dealing" => Len(deck) >= 4
    /\ state = "PlayerTurn" =>
         /\ Len(player.cards) <= HardTotal(player.cards)
         /\ HardTotal(player.cards) <= Value(player)
         /\ Value(player) <= 21
         /\ Len(deck) > 0
    /\ (state = "DealerTurn" /\ Value(dealer) < 17) =>
         /\ Len(dealer.cards) <= HardTotal(dealer.cards)
         /\ HardTotal(dealer.cards) <= Value(dealer)
         /\ Len(player.cards) <= 22
         /\ Len(deck) > 0
    /\ state \in {"PlayerTurn", "DealerTurn", "Resolved"} =>
         Len(deck) + Len(player.cards) + Len(dealer.cards) = 52

C15_Witness ==
    /\ state = "Resolved"
    /\ Value(player) > 21
    /\ Len(player.cards) >= 5
    /\ Len(dealer.cards) >= 4
    /\ Len(deck) > 0

(***************************************************************************)
(* Properties of the soft flag (checked under SpecHand).                   *)
(***************************************************************************)

\* C16: once soft is true it is true after every later AddCard and Value call
\* on the hand.
C16_SoftIsMonotonic ==
    [][player.soft => player'.soft]_vars

C16_Witness ==
    /\ state = "Hand"
    /\ player.soft
    /\ Len(player.cards) >= 3
    /\ player.cards[Len(player.cards)].Rank = Ace
    /\ Value(player) > 10

\* C17: a call of Value changes neither the cards nor the soft flag of the
\* hand: a step that adds no card leaves the hand as it was, and a step that
\* adds a card (an AddCard, with its own call of Value) keeps the cards held
\* before and keeps a soft flag that was true.
C17_ValueIsPureRead ==
    /\ [][Len(player'.cards) = Len(player.cards) => player' = player]_vars
    /\ [][Len(player'.cards) # Len(player.cards)
          => /\ Len(player'.cards) = Len(player.cards) + 1
             /\ SubSeq(player'.cards, 1, Len(player.cards)) = player.cards
             /\ (player.soft => player'.soft)
             /\ Value(player') = FoldValue(player'.cards, player'.soft)]_vars

C17_Witness ==
    /\ state = "Hand"
    /\ player.soft
    /\ Len(player.cards) = 3
    /\ player.cards[2].Rank = Ace
    /\ Value(player) > 21

(***************************************************************************)
(* Properties of the whole round.                                          *)
(***************************************************************************)

\* The place of a state in the order of the round (the deck is created and
\* shuffled at the start of Dealing).
StateOrder(s) ==
    CASE s \in {"Created", "Dealing"} -> 1
      [] s = "PlayerTurn" -> 2
      [] s = "DealerTurn" -> 3
      [] s = "Resolved" -> 4
      [] OTHER -> 0

\* C18: the round passes through Dealing, PlayerTurn, DealerTurn and Resolved
\* in this order, never backwards and skipping none, and with a player who
\* eventually types "h" or "s" at every prompt it reaches Resolved: the player
\* loop ends (a player who keeps hitting busts) and the dealer loop ends.
C18_RoundIsOrderedAndTerminates ==
    /\ [](StateOrder(state) # 0)
    /\ [][StateOrder(state') \in {StateOrder(state), StateOrder(state) + 1}]_vars
    /\ <>(state = "Resolved")

C18_Witness ==
    /\ state = "Resolved"
    /\ action = "h"
    /\ Value(player) > 21
    /\ Len(dealer.cards) >= 3

\* The cards of the round, wherever they are.
AllHeld == deck \o player.cards \o dealer.cards

\* C19: in every state of a round the deck and the two hands together hold
\* each of the 52 cards exactly once (as many places as different cards, so
\* no card is in two places or twice in one); no step makes the deck longer; the cards
\* a step takes from the front of the deck are appended to the hands, in the
\* order drawn, and nothing else changes a hand; the deal gives the player the
\* first and second card of the shuffled deck and the dealer the third and
\* the fourth.
C19_CardsAreConserved ==
    /\ [](LET held == CardsIn(AllHeld)
          IN  /\ Len(AllHeld) = 52
              /\ held = [Suit : 0..3, Rank : 1..13]
              /\ Cardinality(held) = Len(AllHeld))
    /\ [][Len(deck') <= Len(deck)]_vars
    /\ [][state # "Created" =>
            LET k == Len(deck) - Len(deck')
            IN  /\ deck' = SubSeq(deck, k + 1, Len(deck))
                /\ \E a \in 0..k :
                     /\ player'.cards = player.cards \o SubSeq(deck, 1, a)
                     /\ dealer'.cards = dealer.cards \o SubSeq(deck, a + 1, k)]_vars
    /\ [][state = "Dealing" =>
            /\ player'.cards = <<deck[1], deck[2]>>
            /\ dealer'.cards = <<deck[3], deck[4]>>
            /\ Len(deck') = 48]_vars

C19_Witness ==
    /\ state = "Resolved"
    /\ Len(player.cards) = 4
    /\ Len(dealer.cards) = 3
    /\ Len(deck) = 45
    /\ CardsIn(deck) \cap (CardsIn(player.cards) \cup CardsIn(dealer.cards)) = {}

\* The positions of the Aces of a hand, and of those the evaluation counts
\* as 11 (soft, and the total of the cards before it + 11 <= 21).
AcePositions(cards) == {i \in 1..Len(cards) : cards[i].Rank = Ace}

ElevenPositions(cards, soft) ==
    {i \in AcePositions(cards) :
        soft /\ FoldValue(SubSeq(cards, 1, i - 1), soft) + 11 <= 21}

\* C20: soft is true exactly when the evaluation counts an Ace as 11; it
\* never counts more than one Ace as 11, and the one it counts is the first
\* Ace of the hand; the value is the total with every Ace as 1, plus 10 for
\* the Ace counted as 11.
C20_SoftMatchesEvaluation ==
    LET elevens == ElevenPositions(player.cards, player.soft)
        aces == AcePositions(player.cards)
    IN  /\ player.soft <=> elevens # {}
        /\ Cardinality(elevens) <= 1
        /\ player.soft => (aces # {} /\ elevens = {CHOOSE i \in aces : \A j \in aces : i <= j})
        /\ Value(player) = HardTotal(player.cards) + 10 * Cardinality(elevens)

C20_Witness ==
    /\ state = "Hand"
    /\ player.soft
    /\ RanksOf(player.cards) = <<Five, Ace, Ace, King>>
    /\ ElevenPositions(player.cards, player.soft) = {2}

====
